---- MODULE Spec2Model ----
(***************************************************************************)
(* A model of the core of apple-music-album-library-migrator.              *)
(*                                                                         *)
(* Spec (src/src/matching.rs): one behaviour is one call of match_tracks   *)
(* on a pair of albums: the precondition checks, the construction of the   *)
(* two lookup maps, one step per source track of the matching pass, and    *)
(* the return.                                                             *)
(*                                                                         *)
(* SpecAlbum (src/src/apple_music/custom_types/mod.rs): one behaviour is   *)
(* one call of Album::try_from on a catalog payload.                       *)
(*                                                                         *)
(* SpecLibrary (same file): one behaviour is one call of                   *)
(* Album::with_library_info on an album and a library response.            *)
(*                                                                         *)
(* SpecAlbumFullDisc: Album::try_from on payloads whose track numbers      *)
(* reach the end of the u8 range.                                          *)
(*                                                                         *)
(* SpecMigrate (src/src/main.rs, src/src/apple_music/client.rs): one       *)
(* behaviour is one run of the migrate command, one step per stretch of    *)
(* main between two requests to the server.  The three functions above are *)
(* called there in their form as operators (TryFrom, WithLibraryInfo,      *)
(* MatchTracks).                                                           *)
(*                                                                         *)
(* The variables of the functions that are not running keep the value      *)
(* Unused.                                                                 *)
(*                                                                         *)
(* Conventions.  A Vec is a sequence, so positions are 1-based here where  *)
(* the code's are 0-based.  A reference into an album's track list         *)
(* (&source_track, &destination.tracks[i]) is the position of the track in *)
(* that list.  Option<String> is the string None or the contained string.  *)
(* The fields no modelled code reads (album name, release dates) are left  *)
(* out of the records.                                                     *)
(***************************************************************************)
EXTENDS Integers, Sequences, FiniteSets, TLC

VARIABLES
    source,             \* Album<TrackWithLibrary>, argument of match_tracks
    destination,        \* Album<TrackNoLibrary>, argument of match_tracks
    pc,                 \* position in match_tracks
    isrc_map,           \* HashMap<&str, usize>
    name_artist_map,    \* HashMap<(&str, &str), Vec<usize>>
    used_destinations,  \* HashSet<usize>
    results,            \* Vec<TrackMatchResult>
    next_source,        \* position of the `for source_track` iterator
    ret,                \* the Result returned, once pc = "done"
    \* Album::try_from
    payload,                \* api_types::catalog_album::Root, the argument
    track_tuples,           \* the local `tracks`: Vec<(u8, u8, TrackNoLibrary)>
    current_disc,           \* Option<u8>
    expected_track_number,  \* u8
    track_cursor,           \* position of the `for (disc, num, _)` iterator
    album_ret,              \* the Result returned, once pc = "done"
    \* Album::with_library_info
    self_album,             \* Album<TrackNoLibrary>, the receiver
    library_response,       \* api_types::library_album::Root, the argument
    catalog_to_library,     \* HashMap<&str, &str>
    song_cursor,            \* position of the `for library_song` iterator
    library_ret,            \* the Result returned, once pc = "done"
    \* main, the migrate command
    cli,                    \* the fields of Commands::Migrate
    library_album,          \* api_types::library_album::Root
    source_album,           \* Album<TrackWithLibrary>
    destination_album,      \* Album<TrackNoLibrary>
    matches,                \* Vec<TrackMatchResult>
    report,                 \* what the dry run prints: the matched and unmatched lists
    songs_to_add,           \* Vec<&str>
    requests,               \* the HTTP requests sent so far, in order
    personal_library,       \* the user's library on the server
    exit_result             \* the Result main returns, once pc = "done"

matchVars == <<source, destination, isrc_map, name_artist_map,
               used_destinations, results, next_source, ret>>

albumVars == <<payload, track_tuples, current_disc, expected_track_number,
               track_cursor, album_ret>>

libraryVars == <<self_album, library_response, catalog_to_library,
                 song_cursor, library_ret>>

migrateVars == <<cli, library_album, source_album, destination_album, matches,
                 report, songs_to_add, requests, personal_library, exit_result>>

vars == <<pc, matchVars, albumVars, libraryVars, migrateVars>>

Unused == "unused"

AlbumUnused ==
    /\ payload = Unused
    /\ track_tuples = Unused
    /\ current_disc = Unused
    /\ expected_track_number = Unused
    /\ track_cursor = Unused
    /\ album_ret = Unused

LibraryUnused ==
    /\ self_album = Unused
    /\ library_response = Unused
    /\ catalog_to_library = Unused
    /\ song_cursor = Unused
    /\ library_ret = Unused

MatchUnused ==
    /\ source = Unused
    /\ destination = Unused
    /\ isrc_map = Unused
    /\ name_artist_map = Unused
    /\ used_destinations = Unused
    /\ results = Unused
    /\ next_source = Unused
    /\ ret = Unused

MigrateUnused ==
    /\ cli = Unused
    /\ library_album = Unused
    /\ source_album = Unused
    /\ destination_album = Unused
    /\ matches = Unused
    /\ report = Unused
    /\ songs_to_add = Unused
    /\ requests = Unused
    /\ personal_library = Unused
    /\ exit_result = Unused

(***************************************************************************)
(* Bounds of the input space.                                              *)
(***************************************************************************)
MaxSourceTracks == 2
MaxDestinationTracks == 2

None == "None"

(***************************************************************************)
(* Data model (src/src/apple_music/custom_types/mod.rs).                   *)
(***************************************************************************)
TrackNoLibrary(catalog_id, name, artist_name, is_explicit, isrc) ==
    [catalog_id |-> catalog_id, name |-> name, artist_name |-> artist_name,
     is_explicit |-> is_explicit, isrc |-> isrc]

TrackWithLibrary(catalog_id, name, artist_name, is_explicit, isrc, library_id) ==
    [catalog_id |-> catalog_id, name |-> name, artist_name |-> artist_name,
     is_explicit |-> is_explicit, isrc |-> isrc, library_id |-> library_id]

Album(catalog_id, tracks) == [catalog_id |-> catalog_id, tracks |-> tracks]

(***************************************************************************)
(* The tracks the input albums are built from: an explicit edition on the  *)
(* source side and a clean edition on the destination side, with the       *)
(* coincidences the matcher has to tell apart.                             *)
(***************************************************************************)
SourceTrackPool ==
    { TrackWithLibrary("s1", "Song 1", "Artist", TRUE, "ISRC1", "i.1"),
      TrackWithLibrary("s2", "Song 2", "Artist", TRUE, "ISRC2", None),
      \* name and artist of s1, its own ISRC
      TrackWithLibrary("s3", "Song 1", "Artist", TRUE, "ISRC3", "i.3"),
      \* name of s2, another artist
      TrackWithLibrary("s4", "Song 2", "Other", TRUE, "ISRC4", "i.4"),
      \* catalog id of s1
      TrackWithLibrary("s1", "Song 3", "Artist", TRUE, "ISRC5", None),
      \* ISRC of s1
      TrackWithLibrary("s6", "Song 3", "Artist", TRUE, "ISRC1", "i.6"),
      \* catalog id of the destination track d1
      TrackWithLibrary("d1", "Song 4", "Artist", TRUE, "ISRC6", None) }

DestinationTrackPool ==
    { TrackNoLibrary("d1", "Song 1", "Artist", FALSE, "ISRC1"),
      \* name and artist of d1, its own ISRC
      TrackNoLibrary("d2", "Song 1", "Artist", FALSE, "ISRC7"),
      TrackNoLibrary("d3", "Song 2", "Artist", FALSE, "ISRC2"),
      \* ISRC of s3 under another name, name and artist of s4
      TrackNoLibrary("d4", "Song 2", "Other", FALSE, "ISRC3"),
      \* catalog id of d1
      TrackNoLibrary("d1", "Song 5", "Artist", FALSE, "ISRC8"),
      \* ISRC of d2
      TrackNoLibrary("d6", "Song 5", "Artist", FALSE, "ISRC7") }

AlbumIds == {"album1", "album2"}

SeqsUpTo(S, n) == UNION {[1..k -> S] : k \in 0..n}

\* The bijections of 1..n.
Arrangements(n) == {f \in [1..n -> 1..n] : \A i, j \in 1..n : i /= j => f[i] /= f[j]}

(***************************************************************************)
(* Result<Vec<TrackMatchResult>>.  An Err carries the message only.        *)
(***************************************************************************)
Ok(verdicts) == [ok |-> TRUE, verdicts |-> verdicts, error |-> ""]
Err(message) == [ok |-> FALSE, verdicts |-> <<>>, error |-> message]
Pending == [ok |-> FALSE, verdicts |-> <<>>, error |-> "pending"]

Match(s, d) == [kind |-> "Match", source |-> s, destination |-> d]
NoMatch(s) == [kind |-> "NoMatch", source |-> s, destination |-> 0]

Init ==
    /\ \E tracks \in SeqsUpTo(SourceTrackPool, MaxSourceTracks) :
           source = Album("album1", tracks)
    /\ \E id \in AlbumIds, tracks \in SeqsUpTo(DestinationTrackPool, MaxDestinationTracks) :
           destination = Album(id, tracks)
    /\ pc = "check_album_ids"
    /\ isrc_map = <<>>
    /\ name_artist_map = <<>>
    /\ used_destinations = {}
    /\ results = <<>>
    /\ next_source = 1
    /\ ret = Pending
    /\ AlbumUnused
    /\ LibraryUnused
    /\ MigrateUnused

Return(r) ==
    /\ pc' = "done"
    /\ ret' = r

(***************************************************************************)
(* The conditions of the ensure! checks, matching.rs:22-76.                *)
(***************************************************************************)
\* Variant: albums with track lists of different lengths count as different too.
AlbumsDiffer(s, d) == s.catalog_id /= d.catalog_id \/ Len(s.tracks) /= Len(d.tracks)
AlbumIdsDiffer(s, d) == s.catalog_id /= d.catalog_id

\* Variant: the emptiness checks are missing.
NeverEmpty(tracks) == FALSE
IsEmpty(tracks) == Len(tracks) = 0

\* The loop `for track in tracks { ensure!(set.insert(key)) }` fails at the
\* first key that is already in the set.
CatalogIdInsertFails(tracks) ==
    \E i, j \in DOMAIN tracks : i < j /\ tracks[i].catalog_id = tracks[j].catalog_id

\* Variant: the ISRC uniqueness checks are missing.
IsrcInsertNeverFails(tracks) == FALSE
\* Variant: the second block inserts &track.catalog_id again.
IsrcInsertFailsOnCatalogId(tracks) ==
    \E i, j \in DOMAIN tracks : i < j /\ tracks[i].catalog_id = tracks[j].catalog_id
IsrcInsertFails(tracks) ==
    \E i, j \in DOMAIN tracks : i < j /\ tracks[i].isrc = tracks[j].isrc

CatalogIds(tracks) == {tracks[i].catalog_id : i \in DOMAIN tracks}

\* Variant: the two sets are compared for inequality.
IsDifferent(a, b) == a /= b
IsDisjoint(a, b) == a \cap b = {}

(***************************************************************************)
(* The lookup maps, matching.rs:78-91.                                     *)
(***************************************************************************)
SetMax(S) == CHOOSE x \in S : \A y \in S : y <= x

\* collect() inserts the pairs in order, a later pair replacing an earlier one
\* with the same key.
IsrcMap(tracks) ==
    [k \in {tracks[i].isrc : i \in DOMAIN tracks} |->
        SetMax({i \in DOMAIN tracks : tracks[i].isrc = k})]

\* Variant: the fallback key is the name alone.
NameKey(t) == <<t.name>>
NameArtistKey(t) == <<t.name, t.artist_name>>

\* Variant: one position per key, a later track replacing an earlier one.
NameArtistMapLastWins(tracks) ==
    [k \in {<<tracks[i].name, tracks[i].artist_name>> : i \in DOMAIN tracks} |->
        <<SetMax({i \in DOMAIN tracks : <<tracks[i].name, tracks[i].artist_name>> = k})>>]
\* entry(key).or_default().push(i), for i in increasing order.
NameArtistMap(tracks) ==
    [k \in {NameArtistKey(tracks[i]) : i \in DOMAIN tracks} |->
        SelectSeq([i \in DOMAIN tracks |-> i],
                  LAMBDA i : NameArtistKey(tracks[i]) = k)]

\* Variant: the ISRC key is never found.
IsrcLookupMisses(map, isrc) == 0
\* isrc_map.get(isrc): the position found, 0 for Option::None.
IsrcLookup(map, isrc) == IF isrc \in DOMAIN map THEN map[isrc] ELSE 0

\* Variant: only candidates of the source track's content rating are kept.
NameArtistLookupSameRating(map, t) ==
    IF <<t.name, t.artist_name>> \in DOMAIN map
    THEN SelectSeq(map[<<t.name, t.artist_name>>],
                   LAMBDA j : destination.tracks[j].is_explicit = t.is_explicit)
    ELSE <<>>
\* name_artist_map.get(key): the Vec found, <<>> standing for a missing key
\* (both give NoMatch, matching.rs:110-115 and 128-130).
NameArtistLookup(map, t) ==
    IF NameArtistKey(t) \in DOMAIN map THEN map[NameArtistKey(t)] ELSE <<>>

\* Variant: the first candidate is taken whatever follows it.
AnyCandidates(candidates) == TRUE
\* destination_indices.next().is_none() after the first next().
NoSecondCandidate(candidates) == Len(candidates) < 2

\* Variant: the verdict is inserted at the front.
PushFront(vec, x) == <<x>> \o vec
\* results.push(verdict)
Push(vec, x) == Append(vec, x)

(***************************************************************************)
(* match_tracks, matching.rs:18-134.                                       *)
(***************************************************************************)
CheckAlbumIds ==
    /\ pc = "check_album_ids"
    /\ IF AlbumIdsDiffer(source, destination)
       THEN pc' = "check_non_empty" /\ UNCHANGED ret
       ELSE Return(Err("source and destination albums have the same catalog ID"))
    /\ UNCHANGED <<source, destination, isrc_map, name_artist_map,
                   used_destinations, results, next_source>>
    /\ UNCHANGED <<albumVars, libraryVars, migrateVars>>

CheckNonEmpty ==
    /\ pc = "check_non_empty"
    /\ IF IsEmpty(source.tracks)
       THEN Return(Err("source album has no tracks"))
       ELSE IF IsEmpty(destination.tracks)
       THEN Return(Err("destination album has no tracks"))
       ELSE pc' = "check_catalog_ids" /\ UNCHANGED ret
    /\ UNCHANGED <<source, destination, isrc_map, name_artist_map,
                   used_destinations, results, next_source>>
    /\ UNCHANGED <<albumVars, libraryVars, migrateVars>>

CheckCatalogIds ==
    /\ pc = "check_catalog_ids"
    /\ IF CatalogIdInsertFails(source.tracks)
       THEN Return(Err("duplicate catalog ID in source"))
       ELSE IF CatalogIdInsertFails(destination.tracks)
       THEN Return(Err("duplicate catalog ID in destination"))
       ELSE IF ~IsDisjoint(CatalogIds(source.tracks), CatalogIds(destination.tracks))
       THEN Return(Err("source and destination albums have overlapping track catalog IDs"))
       ELSE pc' = "check_isrcs" /\ UNCHANGED ret
    /\ UNCHANGED <<source, destination, isrc_map, name_artist_map,
                   used_destinations, results, next_source>>
    /\ UNCHANGED <<albumVars, libraryVars, migrateVars>>

CheckIsrcs ==
    /\ pc = "check_isrcs"
    /\ IF IsrcInsertFails(source.tracks)
       THEN Return(Err("duplicate ISRC in source"))
       ELSE IF IsrcInsertFails(destination.tracks)
       THEN Return(Err("duplicate ISRC in destination"))
       ELSE pc' = "build_maps" /\ UNCHANGED ret
    /\ UNCHANGED <<source, destination, isrc_map, name_artist_map,
                   used_destinations, results, next_source>>
    /\ UNCHANGED <<albumVars, libraryVars, migrateVars>>

BuildMaps ==
    /\ pc = "build_maps"
    /\ isrc_map' = IsrcMap(destination.tracks)
    /\ name_artist_map' = NameArtistMap(destination.tracks)
    /\ used_destinations' = {}
    /\ results' = <<>>
    /\ next_source' = 1
    /\ pc' = "match"
    /\ UNCHANGED <<source, destination, ret>>
    /\ UNCHANGED <<albumVars, libraryVars, migrateVars>>

\* One iteration of `for source_track in &source.tracks`, matching.rs:96-131.
MatchTrack ==
    /\ pc = "match"
    /\ next_source <= Len(source.tracks)
    /\ LET source_track == source.tracks[next_source]
           by_isrc == IsrcLookup(isrc_map, source_track.isrc)
           candidates == NameArtistLookup(name_artist_map, source_track)
       IN  IF by_isrc /= 0
           THEN IF by_isrc \in used_destinations
                \* ensure!(used_destinations.insert(destination_index))
                THEN /\ Return(Err("Condition failed: used_destinations.insert(destination_index)"))
                     /\ UNCHANGED <<used_destinations, results, next_source>>
                ELSE /\ used_destinations' = used_destinations \cup {by_isrc}
                     /\ results' = Push(results, Match(next_source, by_isrc))
                     /\ next_source' = next_source + 1
                     /\ UNCHANGED <<pc, ret>>
           ELSE IF Len(candidates) = 0
           THEN /\ results' = Push(results, NoMatch(next_source))
                /\ next_source' = next_source + 1
                /\ UNCHANGED <<used_destinations, pc, ret>>
           ELSE IF ~NoSecondCandidate(candidates)
           THEN /\ Return(Err("ambiguous name and artist match"))
                /\ UNCHANGED <<used_destinations, results, next_source>>
           ELSE /\ results' = Push(results, Match(next_source, Head(candidates)))
                /\ next_source' = next_source + 1
                /\ UNCHANGED <<used_destinations, pc, ret>>
    /\ UNCHANGED <<source, destination, isrc_map, name_artist_map>>
    /\ UNCHANGED <<albumVars, libraryVars, migrateVars>>

\* Ok(results), matching.rs:133.
ReturnOk ==
    /\ pc = "match"
    /\ next_source > Len(source.tracks)
    /\ Return(Ok(results))
    /\ UNCHANGED <<source, destination, isrc_map, name_artist_map,
                   used_destinations, results, next_source>>
    /\ UNCHANGED <<albumVars, libraryVars, migrateVars>>

Next ==
    \/ CheckAlbumIds
    \/ CheckNonEmpty
    \/ CheckCatalogIds
    \/ CheckIsrcs
    \/ BuildMaps
    \/ MatchTrack
    \/ ReturnOk

Spec == Init /\ [][Next]_vars

(***************************************************************************)
(* match_tracks as a function of its two arguments: the same checks and    *)
(* the same pass, the loop of matching.rs:96-131 being the recursion on    *)
(* the position i of the source track.                                     *)
(***************************************************************************)
RECURSIVE MatchPass(_, _, _, _, _, _)
MatchPass(s, isrcs, names, used, verdicts, i) ==
    IF i > Len(s.tracks)
    THEN Ok(verdicts)
    ELSE LET source_track == s.tracks[i]
             by_isrc == IsrcLookup(isrcs, source_track.isrc)
             candidates == NameArtistLookup(names, source_track)
         IN  IF by_isrc /= 0
             THEN IF by_isrc \in used
                  THEN Err("Condition failed: used_destinations.insert(destination_index)")
                  ELSE MatchPass(s, isrcs, names, used \cup {by_isrc},
                                 Push(verdicts, Match(i, by_isrc)), i + 1)
             ELSE IF Len(candidates) = 0
             THEN MatchPass(s, isrcs, names, used, Push(verdicts, NoMatch(i)), i + 1)
             ELSE IF ~NoSecondCandidate(candidates)
             THEN Err("ambiguous name and artist match")
             ELSE MatchPass(s, isrcs, names, used,
                            Push(verdicts, Match(i, Head(candidates))), i + 1)

MatchTracks(s, d) ==
    IF ~AlbumIdsDiffer(s, d)
    THEN Err("source and destination albums have the same catalog ID")
    ELSE IF IsEmpty(s.tracks)
    THEN Err("source album has no tracks")
    ELSE IF IsEmpty(d.tracks)
    THEN Err("destination album has no tracks")
    ELSE IF CatalogIdInsertFails(s.tracks)
    THEN Err("duplicate catalog ID in source")
    ELSE IF CatalogIdInsertFails(d.tracks)
    THEN Err("duplicate catalog ID in destination")
    ELSE IF ~IsDisjoint(CatalogIds(s.tracks), CatalogIds(d.tracks))
    THEN Err("source and destination albums have overlapping track catalog IDs")
    ELSE IF IsrcInsertFails(s.tracks)
    THEN Err("duplicate ISRC in source")
    ELSE IF IsrcInsertFails(d.tracks)
    THEN Err("duplicate ISRC in destination")
    ELSE MatchPass(s, IsrcMap(d.tracks), NameArtistMap(d.tracks), {}, <<>>, 1)

\* The function returns what the steps of Spec return.
MatchTracksAgrees == (pc = "done") => ret = MatchTracks(source, destination)

(***************************************************************************)
(* Properties of match_tracks.  The relations between the two track lists  *)
(* are stated here on the inputs alone, independently of the lookup maps.  *)
(***************************************************************************)
Done == pc = "done"

Returned == Done /\ ret.ok

SourceRange == DOMAIN source.tracks
DestinationRange == DOMAIN destination.tracks

\* The destination tracks with the ISRC of source track i.
SameIsrc(i) == {j \in DestinationRange : destination.tracks[j].isrc = source.tracks[i].isrc}

\* The destination tracks with the name and the artist_name of source track i.
SameNameArtist(i) ==
    {j \in DestinationRange :
        /\ destination.tracks[j].name = source.tracks[i].name
        /\ destination.tracks[j].artist_name = source.tracks[i].artist_name}

DistinctAt(tracks, field) ==
    \A i, j \in DOMAIN tracks : i /= j => tracks[i][field] /= tracks[j][field]

NoOverlap(field) ==
    \A i \in SourceRange, j \in DestinationRange :
        source.tracks[i][field] /= destination.tracks[j][field]

\* Everything match_tracks requires of its arguments, except what is named.
CatalogIdsValid ==
    /\ DistinctAt(source.tracks, "catalog_id")
    /\ DistinctAt(destination.tracks, "catalog_id")
    /\ NoOverlap("catalog_id")

IsrcsValid == DistinctAt(source.tracks, "isrc") /\ DistinctAt(destination.tracks, "isrc")

NonEmpty == Len(source.tracks) > 0 /\ Len(destination.tracks) > 0

AlbumsDistinct == source.catalog_id /= destination.catalog_id

Ambiguous == "ambiguous name and artist match"

\* C1: whenever match_tracks returns Ok, no two distinct source tracks are
\* matched to the same destination track, whichever key each match used.
C1_PartialInjection ==
    Returned =>
        \A i, k \in DOMAIN ret.verdicts :
            (/\ i /= k
             /\ ret.verdicts[i].kind = "Match"
             /\ ret.verdicts[k].kind = "Match")
            => ret.verdicts[i].destination /= ret.verdicts[k].destination

\* C2: whenever match_tracks returns Ok, there is one verdict per source
\* track and verdict i is about the i-th source track.
C2_OutputFollowsSource ==
    Returned =>
        /\ Len(ret.verdicts) = Len(source.tracks)
        /\ \A i \in DOMAIN ret.verdicts : ret.verdicts[i].source = i

\* Two source tracks matched to the destination tracks in the opposite order.
C2_Witness ==
    /\ Returned
    /\ Len(ret.verdicts) = 2
    /\ ret.verdicts[1] = Match(1, 2)
    /\ ret.verdicts[2] = Match(2, 1)

\* C3: a source track whose ISRC is in the destination is matched to the
\* destination track with that ISRC, and the ambiguity failure never arises
\* at such a track, however many destination tracks share its name and artist.
C3_IsrcTakesPrecedence ==
    /\ Returned =>
           \A i \in SourceRange : \A j \in SameIsrc(i) :
               i \in DOMAIN ret.verdicts /\ ret.verdicts[i] = Match(i, j)
    /\ (Done /\ ret.error = Ambiguous) => SameIsrc(next_source) = {}

\* A track matched by ISRC while two destination tracks carry its name and artist.
C3_Witness ==
    /\ Returned
    /\ \E i \in SourceRange :
           /\ SameIsrc(i) /= {}
           /\ Cardinality(SameNameArtist(i)) >= 2
           /\ ret.verdicts[i].kind = "Match"

\* C4: if some source track has no destination track with its ISRC and two
\* or more with its name and artist, match_tracks returns an error and no
\* verdicts.
C4_AmbiguityFailsWhole ==
    (Done /\ \E i \in SourceRange :
                 SameIsrc(i) = {} /\ Cardinality(SameNameArtist(i)) >= 2)
    => (~ret.ok /\ ret.verdicts = <<>>)

\* The ambiguity is met after a verdict was computed for an earlier track.
C4_Witness ==
    /\ Done
    /\ ret.error = Ambiguous
    /\ ret.verdicts = <<>>
    /\ Len(results) >= 1
    /\ SameIsrc(next_source) = {}
    /\ Cardinality(SameNameArtist(next_source)) >= 2

\* C5: a source track with no destination track of its ISRC and exactly one
\* of its name and artist is matched to that one, and the pass does not fail
\* as ambiguous at it.
C5_SingleCandidateMatches ==
    /\ Returned =>
           \A i \in SourceRange : \A j \in DestinationRange :
               (SameIsrc(i) = {} /\ SameNameArtist(i) = {j})
               => (i \in DOMAIN ret.verdicts /\ ret.verdicts[i] = Match(i, j))
    /\ (Done /\ ret.error = Ambiguous) => Cardinality(SameNameArtist(next_source)) /= 1

\* A match by name and artist between tracks of different ISRC and rating.
C5_Witness ==
    /\ Returned
    /\ \E i \in SourceRange : \E j \in DestinationRange :
           /\ SameIsrc(i) = {}
           /\ SameNameArtist(i) = {j}
           /\ source.tracks[i].isrc /= destination.tracks[j].isrc
           /\ source.tracks[i].is_explicit /= destination.tracks[j].is_explicit
           /\ ret.verdicts[i] = Match(i, j)

\* C6: whenever match_tracks returns Ok, a verdict is NoMatch exactly when
\* no destination track has the source track's ISRC and none has both its
\* name and its artist_name.
C6_NoMatchExactly ==
    Returned =>
        \A i \in DOMAIN ret.verdicts :
            (ret.verdicts[i].kind = "NoMatch")
            <=> (/\ SameIsrc(ret.verdicts[i].source) = {}
                 /\ SameNameArtist(ret.verdicts[i].source) = {})

\* A NoMatch for a track whose name, but not artist, is in the destination.
C6_Witness ==
    /\ Returned
    /\ \E i \in SourceRange : \E j \in DestinationRange :
           /\ ret.verdicts[i] = NoMatch(i)
           /\ destination.tracks[j].name = source.tracks[i].name
           /\ destination.tracks[j].artist_name /= source.tracks[i].artist_name

\* C7: match_tracks returns an error whenever the two albums have the same
\* catalog_id.
C7_SameAlbumFails ==
    (Done /\ source.catalog_id = destination.catalog_id) => ~ret.ok

\* The same album id over track lists that are otherwise acceptable.
C7_Witness ==
    /\ Done
    /\ ~ret.ok
    /\ source.catalog_id = destination.catalog_id
    /\ NonEmpty /\ CatalogIdsValid /\ IsrcsValid
    /\ NoOverlap("isrc")

\* C8: match_tracks returns an error whenever the track catalog ids of the
\* two albums are not pairwise distinct.
C8_CatalogIdClashFails ==
    (Done /\ ~CatalogIdsValid) => ~ret.ok

\* A catalog id present in both albums, nothing else being wrong.
C8_Witness ==
    /\ Done
    /\ ~ret.ok
    /\ AlbumsDistinct /\ NonEmpty /\ IsrcsValid
    /\ DistinctAt(source.tracks, "catalog_id")
    /\ DistinctAt(destination.tracks, "catalog_id")
    /\ ~NoOverlap("catalog_id")
    /\ CatalogIds(source.tracks) /= CatalogIds(destination.tracks)

\* C9: match_tracks returns an error whenever two tracks of the source, or
\* two tracks of the destination, have the same ISRC.
C9_DuplicateIsrcFails ==
    (Done /\ ~IsrcsValid) => ~ret.ok

\* An ISRC repeated in the destination, the source track having one match.
C9_Witness ==
    /\ Done
    /\ ret.error = "duplicate ISRC in destination"
    /\ AlbumsDistinct /\ NonEmpty /\ CatalogIdsValid
    /\ DistinctAt(source.tracks, "isrc")
    /\ ~DistinctAt(destination.tracks, "isrc")
    /\ \A i \in SourceRange : Cardinality(SameIsrc(i)) + Cardinality(SameNameArtist(i)) = 1

\* C10: match_tracks returns an error whenever either track list is empty,
\* and an Ok result is never an empty verdict sequence.
C10_EmptyAlbumFails ==
    /\ (Done /\ ~NonEmpty) => ~ret.ok
    /\ Returned => ret.verdicts /= <<>>

\* An empty destination for a source that has tracks.
C10_Witness ==
    /\ Done
    /\ ~ret.ok
    /\ AlbumsDistinct
    /\ Len(source.tracks) > 0
    /\ Len(destination.tracks) = 0

GuardFailed == "Condition failed: used_destinations.insert(destination_index)"

\* C22: throughout the matching pass, every destination track of a Match
\* verdict already emitted is in used_destinations, whether the match was
\* reached by ISRC or by the (name, artist_name) fallback.
C22_MatchedAreClaimed ==
    \A i \in DOMAIN results :
        results[i].kind = "Match" => results[i].destination \in used_destinations

\* C23: the ISRC-collision guard never fails: at every position of the pass
\* no destination track with the ISRC of the current source track is in
\* used_destinations, and match_tracks never returns the guard's error.
C23_CollisionGuardNeverFails ==
    /\ Done => ret.error /= GuardFailed
    /\ (pc = "match" /\ next_source \in SourceRange)
       => \A j \in SameIsrc(next_source) : j \notin used_destinations

\* The guard passed at the second track, after the first claimed a destination.
C23_Witness ==
    /\ Returned
    /\ Len(ret.verdicts) = 2
    /\ \A i \in SourceRange : SameIsrc(i) /= {} /\ ret.verdicts[i].kind = "Match"
    /\ Cardinality(used_destinations) = 2

\* What the caller sees of a result: whether it failed and, for each source
\* track, the catalog id of the destination track it is matched to (None for
\* NoMatch).
Outcome(r, d) ==
    [ok |-> r.ok,
     matched |-> [i \in DOMAIN r.verdicts |->
                     IF r.verdicts[i].kind = "Match"
                     THEN d.tracks[r.verdicts[i].destination].catalog_id
                     ELSE None]]

\* The albums with the tracks of d in another order.
Reordered(d) ==
    {Album(d.catalog_id, [i \in DOMAIN d.tracks |-> d.tracks[p[i]]]) :
        p \in Arrangements(Len(d.tracks))}

InsertAt(seq, k, t) == SubSeq(seq, 1, k - 1) \o <<t>> \o SubSeq(seq, k, Len(seq))

\* The albums with one of the tracks `extras` added to d at any position.
Extended(d, extras) ==
    {Album(d.catalog_id, InsertAt(d.tracks, k, t)) :
        k \in 1..(Len(d.tracks) + 1), t \in extras}

\* t shares no ISRC and no (name, artist_name) with any source track.
Unrelated(t) ==
    \A i \in SourceRange :
        /\ source.tracks[i].isrc /= t.isrc
        /\ ~(source.tracks[i].name = t.name /\ source.tracks[i].artist_name = t.artist_name)

\* t brings no catalog id of either album and no ISRC of the destination.
Fresh(t) ==
    /\ \A i \in SourceRange : source.tracks[i].catalog_id /= t.catalog_id
    /\ \A j \in DestinationRange :
           /\ destination.tracks[j].catalog_id /= t.catalog_id
           /\ destination.tracks[j].isrc /= t.isrc

SameOutcome(d2) == Outcome(MatchTracks(source, d2), d2) = Outcome(ret, destination)

\* C25 as stated: the outcome is the same for every reordering of the
\* destination tracks and for every destination track added that shares no
\* ISRC and no (name, artist_name) with a source track.
C25_Original ==
    Done =>
        \A d2 \in Reordered(destination)
                   \cup Extended(destination, {t \in DestinationTrackPool : Unrelated(t)}) :
            SameOutcome(d2)

\* C25: the outcome (failure, or the catalog id matched to each source
\* track) is the same for every reordering of the destination tracks, and
\* for every track added to a non-empty destination that shares no ISRC and
\* no (name, artist_name) with a source track, no catalog id with a track of
\* either album and no ISRC with a destination track.
C25_OrderAndExtrasIgnored ==
    Done =>
        /\ \A d2 \in Reordered(destination) : SameOutcome(d2)
        /\ Len(destination.tracks) > 0 =>
               \A d2 \in Extended(destination,
                                  {t \in DestinationTrackPool : Unrelated(t) /\ Fresh(t)}) :
                   SameOutcome(d2)

\* A match with the second destination track, which a reordering moves and
\* before which a fresh unrelated track can be added.
C25_Witness ==
    /\ Returned
    /\ Len(destination.tracks) = 2
    /\ \E i \in DOMAIN ret.verdicts : ret.verdicts[i] = Match(i, 2)
    /\ \E t \in DestinationTrackPool : Unrelated(t) /\ Fresh(t)

(***************************************************************************)
(* Album::try_from(api_types::catalog_album::Root),                        *)
(* custom_types/mod.rs:45-106.                                             *)
(***************************************************************************)
MaxPayloadTracks == 3

U8Max == 255

\* Option<u8>: <<>> is None, <<x>> is Some(x).
Some(x) == <<x>>
NoneOpt == <<>>

\* api_types::catalog_album::Song; the attributes other than the disc and
\* track number are those of the song with that id.
SongIds == {"t1", "t2", "t3"}
SongNameOf == [t1 |-> "Song 1", t2 |-> "Song 2", t3 |-> "Song 3"]
SongIsrcOf == [t1 |-> "ISRC1", t2 |-> "ISRC2", t3 |-> "ISRC3"]
SongRatingOf == [t1 |-> "explicit", t2 |-> None, t3 |-> "explicit"]
DiscNumbers == {1, 2}
TrackNumbers == {1, 2, 3}

Song(id, disc_number, track_number) ==
    [id |-> id,
     attributes |-> [artist_name |-> "Artist",
                     content_rating |-> SongRatingOf[id],
                     disc_number |-> disc_number,
                     isrc |-> SongIsrcOf[id],
                     name |-> SongNameOf[id],
                     track_number |-> track_number]]

Songs == {Song(id, d, n) : id \in SongIds, d \in DiscNumbers, n \in TrackNumbers}

\* api_types::catalog_album::Album, relationships.tracks.data flattened to tracks.
CatalogAlbum(id, track_count, songs) ==
    [id |-> id, attributes |-> [track_count |-> track_count], tracks |-> songs]

\* The albums with these track records: the declared track count is the
\* number of records or off by one.
CatalogAlbums(songs) ==
    {CatalogAlbum("album1", n, songs) :
        n \in {Len(songs) - 1, Len(songs), Len(songs) + 1} \cap (0..U8Max)}

AlbumOk(built) == [ok |-> TRUE, album |-> built, error |-> ""]
AlbumErr(message) == [ok |-> FALSE, album |-> Unused, error |-> message]

\* The closure of the map, mod.rs:59-72.
ToTuple(song) ==
    <<song.attributes.disc_number, song.attributes.track_number,
      TrackNoLibrary(song.id, song.attributes.name, song.attributes.artist_name,
                     song.attributes.content_rating /= None, song.attributes.isrc)>>

\* (disc, num) < (disc, num), the order of the sort key.
KeyLess(a, b) == a[1] < b[1] \/ (a[1] = b[1] /\ a[2] < b[2])
KeyEqual(a, b) == a[1] = b[1] /\ a[2] = b[2]

\* sort_by_key is stable: an element goes after those of a smaller key and
\* after the earlier ones of an equal key.
SortRank(seq, i) ==
    1 + Cardinality({j \in DOMAIN seq :
                        \/ KeyLess(seq[j], seq[i])
                        \/ (KeyEqual(seq[j], seq[i]) /\ j < i)})

\* Variant: the list is left in the order of the payload.
Unsorted(seq) == seq
SortByKey(seq) ==
    LET ranked == {<<SortRank(seq, i), i>> : i \in DOMAIN seq}
    IN  [r \in DOMAIN seq |-> seq[(CHOOSE p \in ranked : p[1] = r)[2]]]

\* Variant: the declared count is only an upper limit.
TrackCountAtLeast(n, track_count) == n <= track_count
\* tracks.len() == album.attributes.track_count as usize
TrackCountMatches(n, track_count) == n = track_count

\* Variant: any number from the expected one on is accepted.
NumberAtLeast(num, expected) == num >= expected
\* *num == expected_track_number
NumberIsExpected(num, expected) == num = expected

\* Variant: the counter wraps around to 0.
WrappingAdd(x) == Some((x + 1) % (U8Max + 1))
\* expected_track_number.checked_add(1) on a u8: None on overflow.
CheckedAdd(x) == IF x + 1 > U8Max THEN NoneOpt ELSE Some(x + 1)

\* Variant: only neighbouring tracks are compared.
SeenIdsNeighbourFails(tuples) ==
    \E i \in DOMAIN tuples :
        i + 1 \in DOMAIN tuples /\ tuples[i][3].catalog_id = tuples[i + 1][3].catalog_id
\* The loop `ensure!(seen_ids.insert(&track.catalog_id))` fails at the first
\* catalog id that is already in the set.
SeenIdsInsertFails(tuples) ==
    \E i, j \in DOMAIN tuples : i < j /\ tuples[i][3].catalog_id = tuples[j][3].catalog_id

InitAlbum ==
    \* api_types::catalog_album::Root with no album, with one album, or with
    \* the same album of at most one track twice.
    /\ \/ payload = [data |-> <<>>]
       \/ \E songs \in SeqsUpTo(Songs, MaxPayloadTracks) :
              \E a \in CatalogAlbums(songs) : payload = [data |-> <<a>>]
       \/ \E songs \in SeqsUpTo(Songs, 1) :
              \E a \in CatalogAlbums(songs) : payload = [data |-> <<a, a>>]
    /\ pc = "single_album"
    /\ track_tuples = <<>>
    /\ current_disc = NoneOpt
    /\ expected_track_number = 1
    /\ track_cursor = 1
    /\ album_ret = Unused
    /\ MatchUnused
    /\ LibraryUnused
    /\ MigrateUnused

AlbumReturn(r) ==
    /\ pc' = "done"
    /\ album_ret' = r

\* ensure!(value.data.len() == 1) and the unwrap of the only album, mod.rs:49-50.
SingleAlbum ==
    /\ pc = "single_album"
    /\ IF Len(payload.data) = 1
       THEN pc' = "collect" /\ UNCHANGED album_ret
       ELSE AlbumReturn(AlbumErr("Condition failed: value.data.len() == 1"))
    /\ UNCHANGED <<payload, track_tuples, current_disc, expected_track_number, track_cursor>>
    /\ UNCHANGED <<matchVars, libraryVars, migrateVars>>

\* The map/collect and the count check, mod.rs:50-73.
CollectTracks ==
    /\ pc = "collect"
    /\ LET album == payload.data[1]
           collected == [i \in DOMAIN album.tracks |-> ToTuple(album.tracks[i])]
       IN  /\ track_tuples' = collected
           /\ IF TrackCountMatches(Len(collected), album.attributes.track_count)
              THEN pc' = "sort" /\ UNCHANGED album_ret
              ELSE AlbumReturn(AlbumErr("Condition failed: tracks.len() == track_count"))
    /\ UNCHANGED <<payload, current_disc, expected_track_number, track_cursor>>
    /\ UNCHANGED <<matchVars, libraryVars, migrateVars>>

\* tracks.sort_by_key(..) and the initial values of the walk, mod.rs:75-80.
SortTracks ==
    /\ pc = "sort"
    /\ track_tuples' = SortByKey(track_tuples)
    /\ current_disc' = NoneOpt
    /\ expected_track_number' = 1
    /\ track_cursor' = 1
    /\ pc' = "check_numbers"
    /\ UNCHANGED <<payload, album_ret>>
    /\ UNCHANGED <<matchVars, libraryVars, migrateVars>>

\* One iteration of `for (disc, num, _) in &tracks`, mod.rs:81-90.
CheckTrackNumber ==
    /\ pc = "check_numbers"
    /\ track_cursor <= Len(track_tuples)
    /\ LET disc == track_tuples[track_cursor][1]
           num == track_tuples[track_cursor][2]
           expected == IF Some(disc) /= current_disc THEN 1 ELSE expected_track_number
       IN  /\ current_disc' = Some(disc)
           /\ IF ~NumberIsExpected(num, expected)
              THEN /\ AlbumReturn(AlbumErr("Condition failed: *num == expected_track_number"))
                   /\ expected_track_number' = expected
                   /\ UNCHANGED track_cursor
              ELSE IF CheckedAdd(expected) = NoneOpt
              THEN /\ AlbumReturn(AlbumErr("Failed to increment expected track number"))
                   /\ expected_track_number' = expected
                   /\ UNCHANGED track_cursor
              ELSE /\ expected_track_number' = CheckedAdd(expected)[1]
                   /\ track_cursor' = track_cursor + 1
                   /\ UNCHANGED <<pc, album_ret>>
    /\ UNCHANGED <<payload, track_tuples>>
    /\ UNCHANGED <<matchVars, libraryVars, migrateVars>>

\* The seen_ids loop, mod.rs:93-96.
CheckSeenIds ==
    /\ pc = "check_numbers"
    /\ track_cursor > Len(track_tuples)
    /\ IF SeenIdsInsertFails(track_tuples)
       THEN AlbumReturn(AlbumErr("Condition failed: seen_ids.insert(&track.catalog_id)"))
       ELSE pc' = "build_album" /\ UNCHANGED album_ret
    /\ UNCHANGED <<payload, track_tuples, current_disc, expected_track_number, track_cursor>>
    /\ UNCHANGED <<matchVars, libraryVars, migrateVars>>

\* Ok(Album { .. }), mod.rs:98-104.
BuildAlbum ==
    /\ pc = "build_album"
    /\ AlbumReturn(AlbumOk(Album(payload.data[1].id,
                                 [i \in DOMAIN track_tuples |-> track_tuples[i][3]])))
    /\ UNCHANGED <<payload, track_tuples, current_disc, expected_track_number, track_cursor>>
    /\ UNCHANGED <<matchVars, libraryVars, migrateVars>>

NextAlbum ==
    \/ SingleAlbum
    \/ CollectTracks
    \/ SortTracks
    \/ CheckTrackNumber
    \/ CheckSeenIds
    \/ BuildAlbum

SpecAlbum == InitAlbum /\ [][NextAlbum]_vars

(***************************************************************************)
(* Album::try_from as a function of its argument: the same checks in the   *)
(* same order, the walk of mod.rs:81-90 being the recursion on the         *)
(* position i.                                                             *)
(***************************************************************************)
\* The message of the first ensure! or `?` that fails from position i on,
\* the empty string if none does.
RECURSIVE NumberWalk(_, _, _, _)
NumberWalk(tuples, disc, expected_before, i) ==
    IF i > Len(tuples)
    THEN ""
    ELSE LET expected == IF Some(tuples[i][1]) /= disc THEN 1 ELSE expected_before
         IN  IF ~NumberIsExpected(tuples[i][2], expected)
             THEN "Condition failed: *num == expected_track_number"
             ELSE IF CheckedAdd(expected) = NoneOpt
             THEN "Failed to increment expected track number"
             ELSE NumberWalk(tuples, Some(tuples[i][1]), CheckedAdd(expected)[1], i + 1)

TryFrom(value) ==
    IF Len(value.data) /= 1
    THEN AlbumErr("Condition failed: value.data.len() == 1")
    ELSE LET album == value.data[1]
             collected == [i \in DOMAIN album.tracks |-> ToTuple(album.tracks[i])]
             sorted == SortByKey(collected)
             walk == NumberWalk(sorted, NoneOpt, 1, 1)
         IN  IF ~TrackCountMatches(Len(collected), album.attributes.track_count)
             THEN AlbumErr("Condition failed: tracks.len() == track_count")
             ELSE IF walk /= ""
             THEN AlbumErr(walk)
             ELSE IF SeenIdsInsertFails(sorted)
             THEN AlbumErr("Condition failed: seen_ids.insert(&track.catalog_id)")
             ELSE AlbumOk(Album(album.id, [i \in DOMAIN sorted |-> sorted[i][3]]))

\* The function returns what the steps of SpecAlbum and SpecAlbumFullDisc return.
TryFromAgrees == (pc = "done") => album_ret = TryFrom(payload)

(***************************************************************************)
(* Album::try_from on payloads with a disc that reaches the end of the u8  *)
(* range: a disc of U8Max - 1 or of U8Max tracks numbered without gaps,    *)
(* listed in either order, alone or with a one-track second disc listed    *)
(* after or before it.                                                     *)
(***************************************************************************)
DiscSong(disc_number, track_number) ==
    [id |-> ToString(1000 * disc_number + track_number),
     attributes |-> [artist_name |-> "Artist",
                     content_rating |-> None,
                     disc_number |-> disc_number,
                     isrc |-> ToString(1000 * disc_number + track_number),
                     name |-> ToString(1000 * disc_number + track_number),
                     track_number |-> track_number]]

Ascending(disc_number, n) == [i \in 1..n |-> DiscSong(disc_number, i)]
Descending(disc_number, n) == [i \in 1..n |-> DiscSong(disc_number, n + 1 - i)]

\* track_count is a u8: a payload of more records cannot declare their number.
DeclaredFor(songs) == IF Len(songs) > U8Max THEN U8Max ELSE Len(songs)

InitAlbumFullDisc ==
    /\ \E n \in {U8Max - 1, U8Max} :
       \E songs \in {Ascending(1, n), Descending(1, n),
                     Ascending(1, n) \o Ascending(2, 1),
                     Ascending(2, 1) \o Descending(1, n)} :
           payload = [data |-> <<CatalogAlbum("album1", DeclaredFor(songs), songs)>>]
    /\ pc = "single_album"
    /\ track_tuples = <<>>
    /\ current_disc = NoneOpt
    /\ expected_track_number = 1
    /\ track_cursor = 1
    /\ album_ret = Unused
    /\ MatchUnused
    /\ LibraryUnused
    /\ MigrateUnused

SpecAlbumFullDisc == InitAlbumFullDisc /\ [][NextAlbum]_vars

(***************************************************************************)
(* Properties of Album::try_from, stated on the payload and the result.    *)
(***************************************************************************)
AlbumDone == pc = "done"

Built == AlbumDone /\ album_ret.ok

OneAlbum == Len(payload.data) = 1

PayloadSongs == payload.data[1].tracks

DeclaredCount == payload.data[1].attributes.track_count

SongKey(song) == <<song.attributes.disc_number, song.attributes.track_number>>

\* The track a payload record stands for.
IsTrackOf(track, song) ==
    /\ track.catalog_id = song.id
    /\ track.name = song.attributes.name
    /\ track.artist_name = song.attributes.artist_name
    /\ track.isrc = song.attributes.isrc
    /\ track.is_explicit = (song.attributes.content_rating = "explicit")

SongsOnDisc(d) == {i \in DOMAIN PayloadSongs : PayloadSongs[i].attributes.disc_number = d}

\* The track numbers of every disc of the payload are exactly 1..k.
ContiguousNumbers ==
    \A d \in {PayloadSongs[i].attributes.disc_number : i \in DOMAIN PayloadSongs} :
        {PayloadSongs[i].attributes.track_number : i \in SongsOnDisc(d)}
            = 1..Cardinality(SongsOnDisc(d))

DistinctSongIds ==
    \A i, j \in DOMAIN PayloadSongs : i /= j => PayloadSongs[i].id /= PayloadSongs[j].id

CountMatches == Len(PayloadSongs) = DeclaredCount

\* C11: every album Album::try_from returns as Ok has at least one track.
C11_BuiltAlbumHasTracks ==
    Built => Len(album_ret.album.tracks) >= 1

\* C12: on success the output tracks are the payload's track records, each
\* once, in strictly increasing (disc number, track number) order.  That
\* arrangement is fixed by the records alone, so every ordering of the same
\* records gives the same album.
C12_TracksSortedAndComplete ==
    Built =>
        /\ Len(album_ret.album.tracks) = Len(PayloadSongs)
        /\ \E p \in Arrangements(Len(PayloadSongs)) :
               /\ \A r \in DOMAIN PayloadSongs :
                      IsTrackOf(album_ret.album.tracks[r], PayloadSongs[p[r]])
               /\ \A r, q \in DOMAIN PayloadSongs :
                      r < q => KeyLess(SongKey(PayloadSongs[p[r]]), SongKey(PayloadSongs[p[q]]))

\* Three tracks on two discs, listed with the second disc first.
C12_Witness ==
    /\ Built
    /\ Len(album_ret.album.tracks) = 3
    /\ PayloadSongs[1].attributes.disc_number = 2
    /\ PayloadSongs[2].attributes.track_number = 2
    /\ PayloadSongs[3].attributes.track_number = 1
    /\ album_ret.album.tracks[1].catalog_id = PayloadSongs[3].id

\* C13: construction succeeds only if, on every disc of the payload, the
\* track numbers are exactly 1..k for the k tracks of that disc.
C13_ContiguousNumbersRequired ==
    Built => ContiguousNumbers

\* A second disc that starts at track 2, nothing else being wrong.
C13_Witness ==
    /\ AlbumDone
    /\ ~album_ret.ok
    /\ OneAlbum /\ CountMatches /\ DistinctSongIds
    /\ \E i, j \in DOMAIN PayloadSongs :
           /\ SongKey(PayloadSongs[i]) = <<1, 1>>
           /\ SongKey(PayloadSongs[j]) = <<2, 2>>
    /\ Len(PayloadSongs) = 2

\* C14: construction fails whenever the number of track records differs
\* from the declared track count, in either direction.
C14_CountMismatchFails ==
    (AlbumDone /\ OneAlbum /\ Len(PayloadSongs) /= DeclaredCount) => ~album_ret.ok

\* More records than declared, nothing else being wrong.
C14_Witness ==
    /\ AlbumDone
    /\ ~album_ret.ok
    /\ OneAlbum /\ ContiguousNumbers /\ DistinctSongIds
    /\ Len(PayloadSongs) = 2
    /\ DeclaredCount = 1

\* C15: construction fails whenever two track records carry the same
\* catalog id, so a constructed album has pairwise distinct track catalog ids.
C15_DuplicateIdFails ==
    /\ (AlbumDone /\ OneAlbum /\ ~DistinctSongIds) => ~album_ret.ok
    /\ Built => \A i, j \in DOMAIN album_ret.album.tracks :
                    i /= j => album_ret.album.tracks[i].catalog_id
                                  /= album_ret.album.tracks[j].catalog_id

\* A catalog id repeated on another disc, the numbering and count being valid.
C15_Witness ==
    /\ AlbumDone
    /\ ~album_ret.ok
    /\ OneAlbum /\ CountMatches /\ ContiguousNumbers
    /\ \E i, j \in DOMAIN PayloadSongs :
           /\ PayloadSongs[i].id = PayloadSongs[j].id
           /\ PayloadSongs[i].attributes.disc_number /= PayloadSongs[j].attributes.disc_number

Overflowed == "Failed to increment expected track number"

HasTrackNumbered(n) ==
    \E i \in DOMAIN PayloadSongs : PayloadSongs[i].attributes.track_number = n

\* C24: the expected-track-number counter stays within 1..255 (it never
\* wraps around); no album with a track numbered 255 is constructed; and when
\* the count and the numbering are otherwise valid, construction fails with
\* the overflow error at the track numbered 255.
C24_CounterNeverWraps ==
    /\ expected_track_number \in 1..U8Max
    /\ (AlbumDone /\ OneAlbum /\ HasTrackNumbered(U8Max)) => ~album_ret.ok
    /\ (AlbumDone /\ OneAlbum /\ CountMatches /\ ContiguousNumbers
           /\ HasTrackNumbered(U8Max))
       => /\ album_ret.error = Overflowed
          /\ track_tuples[track_cursor][2] = U8Max

\* One disc numbered 1..255, listed backwards: the overflow is met at the
\* last track of the sorted list.
C24_Witness ==
    /\ AlbumDone
    /\ album_ret.error = Overflowed
    /\ Len(PayloadSongs) = U8Max
    /\ PayloadSongs[1].attributes.track_number = U8Max
    /\ ContiguousNumbers /\ CountMatches /\ DistinctSongIds
    /\ track_cursor = Len(track_tuples)

(***************************************************************************)
(* Album<TrackNoLibrary>::with_library_info(&library_album::Root),         *)
(* custom_types/mod.rs:121-161.                                            *)
(***************************************************************************)
MaxAlbumTracks == 2
MaxLibrarySongs == 2

\* The tracks of the catalog album the library information is attached to.
CatalogTrackPool ==
    { TrackNoLibrary("t1", "Song 1", "Artist", TRUE, "ISRC1"),
      TrackNoLibrary("t2", "Song 2", "Artist", FALSE, "ISRC2"),
      TrackNoLibrary("t3", "Song 3", "Artist", TRUE, "ISRC3") }

\* api_types::library_album::LibrarySong, attributes.play_params.catalog_id
\* flattened to catalog_id.
LibrarySong(id, catalog_id) == [id |-> id, catalog_id |-> catalog_id]

LibrarySongs == {LibrarySong(id, c) : id \in {"i.1", "i.2"}, c \in {"t1", "t2", "t3"}}

\* api_types::library_album::LibraryAlbum, relationships.catalog.data
\* flattened to the sequence of the linked catalog album ids.
LibraryAlbum(id, catalog, songs) == [id |-> id, catalog |-> catalog, tracks |-> songs]

LibraryOk(merged) == [ok |-> TRUE, album |-> merged, error |-> ""]
LibraryErr(message) == [ok |-> FALSE, album |-> Unused, error |-> message]

\* Variant: the first linked album is taken whatever follows it.
HasLink(catalog) == Len(catalog) >= 1
\* library_album.relationships.catalog.data.len() == 1
SingleLink(catalog) == Len(catalog) = 1

\* Variant: a later song replaces an earlier one.
NeverMapped(map, catalog_id) == FALSE
\* catalog_to_library.contains_key(catalog_id)
ContainsKey(map, catalog_id) == catalog_id \in DOMAIN map

\* Variant: the membership check is missing.
AnyTrack(tracks, catalog_id) == TRUE
\* self.tracks.iter().any(|t| &t.catalog_id == catalog_id)
HasTrack(tracks, catalog_id) == \E i \in DOMAIN tracks : tracks[i].catalog_id = catalog_id

\* catalog_to_library.insert(catalog_id, &library_song.id)
MapInsert(map, catalog_id, library_id) ==
    [k \in DOMAIN map \cup {catalog_id} |-> IF k = catalog_id THEN library_id ELSE map[k]]

\* Variant: the emptiness check is missing.
MapNeverEmpty(map) == FALSE
\* catalog_to_library.is_empty()
MapIsEmpty(map) == DOMAIN map = {}

\* Variant: the id of some library song, whatever the track.
MapGetAny(map, catalog_id) ==
    IF DOMAIN map = {} THEN None ELSE map[CHOOSE k \in DOMAIN map : TRUE]
\* catalog_to_library.get(track.catalog_id).map(|&id| id.to_owned())
MapGet(map, catalog_id) == IF catalog_id \in DOMAIN map THEN map[catalog_id] ELSE None

\* TrackNoLibrary::with_library_id, mod.rs:108-120.
WithLibraryId(track, library_id) ==
    TrackWithLibrary(track.catalog_id, track.name, track.artist_name,
                     track.is_explicit, track.isrc, library_id)

InitLibrary ==
    /\ \E tracks \in SeqsUpTo(CatalogTrackPool, MaxAlbumTracks) :
           self_album = Album("album1", tracks)
    \* api_types::library_album::Root with no album, with one album, or with
    \* the same album without songs twice.
    /\ \/ library_response = [data |-> <<>>]
       \/ \E catalog \in SeqsUpTo(AlbumIds, 2), songs \in SeqsUpTo(LibrarySongs, MaxLibrarySongs) :
              library_response = [data |-> <<LibraryAlbum("l.1", catalog, songs)>>]
       \/ \E catalog \in SeqsUpTo(AlbumIds, 2) :
              library_response = [data |-> <<LibraryAlbum("l.1", catalog, <<>>),
                                            LibraryAlbum("l.1", catalog, <<>>)>>]
    /\ pc = "check_library_album"
    /\ catalog_to_library = <<>>
    /\ song_cursor = 1
    /\ library_ret = Unused
    /\ MatchUnused
    /\ AlbumUnused
    /\ MigrateUnused

LibraryReturn(r) ==
    /\ pc' = "done"
    /\ library_ret' = r

\* The three ensure! on the library album record, mod.rs:127-130.
CheckLibraryAlbum ==
    /\ pc = "check_library_album"
    /\ IF Len(library_response.data) /= 1
       THEN LibraryReturn(LibraryErr("Condition failed: library_response.data.len() == 1"))
       ELSE IF ~SingleLink(library_response.data[1].catalog)
       THEN LibraryReturn(LibraryErr("Condition failed: catalog.data.len() == 1"))
       ELSE IF library_response.data[1].catalog[1] /= self_album.catalog_id
       THEN LibraryReturn(LibraryErr("Condition failed: catalog.data[0].id == self.catalog_id"))
       ELSE pc' = "scan_songs" /\ UNCHANGED library_ret
    /\ UNCHANGED <<self_album, library_response, catalog_to_library, song_cursor>>
    /\ UNCHANGED <<matchVars, albumVars, migrateVars>>

\* One iteration of `for library_song in ..tracks.data`, mod.rs:132-137.
ScanLibrarySong ==
    /\ pc = "scan_songs"
    /\ song_cursor <= Len(library_response.data[1].tracks)
    /\ LET library_song == library_response.data[1].tracks[song_cursor]
           catalog_id == library_song.catalog_id
       IN  IF ContainsKey(catalog_to_library, catalog_id)
           THEN /\ LibraryReturn(LibraryErr("Condition failed: !catalog_to_library.contains_key(..)"))
                /\ UNCHANGED <<catalog_to_library, song_cursor>>
           ELSE IF ~HasTrack(self_album.tracks, catalog_id)
           THEN /\ LibraryReturn(LibraryErr("Condition failed: self.tracks.iter().any(..)"))
                /\ UNCHANGED <<catalog_to_library, song_cursor>>
           ELSE /\ catalog_to_library' = MapInsert(catalog_to_library, catalog_id, library_song.id)
                /\ song_cursor' = song_cursor + 1
                /\ UNCHANGED <<pc, library_ret>>
    /\ UNCHANGED <<self_album, library_response>>
    /\ UNCHANGED <<matchVars, albumVars, migrateVars>>

\* The emptiness check and the construction of the result, mod.rs:140-159.
AttachLibraryIds ==
    /\ pc = "scan_songs"
    /\ song_cursor > Len(library_response.data[1].tracks)
    /\ IF MapIsEmpty(catalog_to_library)
       THEN LibraryReturn(LibraryErr("Condition failed: !catalog_to_library.is_empty()"))
       ELSE LibraryReturn(LibraryOk(Album(
                self_album.catalog_id,
                [i \in DOMAIN self_album.tracks |->
                    WithLibraryId(self_album.tracks[i],
                                  MapGet(catalog_to_library, self_album.tracks[i].catalog_id))])))
    /\ UNCHANGED <<self_album, library_response, catalog_to_library, song_cursor>>
    /\ UNCHANGED <<matchVars, albumVars, migrateVars>>

NextLibrary ==
    \/ CheckLibraryAlbum
    \/ ScanLibrarySong
    \/ AttachLibraryIds

SpecLibrary == InitLibrary /\ [][NextLibrary]_vars

(***************************************************************************)
(* Album::with_library_info as a function of its arguments, the loop of    *)
(* mod.rs:132-138 being the recursion on the position k.                   *)
(***************************************************************************)
\* The map after the loop, and the message of the ensure! that failed, the
\* empty string if none did.
RECURSIVE ScanSongs(_, _, _, _)
ScanSongs(tracks, songs, map, k) ==
    IF k > Len(songs)
    THEN [error |-> "", map |-> map]
    ELSE IF ContainsKey(map, songs[k].catalog_id)
    THEN [error |-> "Condition failed: !catalog_to_library.contains_key(..)", map |-> map]
    ELSE IF ~HasTrack(tracks, songs[k].catalog_id)
    THEN [error |-> "Condition failed: self.tracks.iter().any(..)", map |-> map]
    ELSE ScanSongs(tracks, songs, MapInsert(map, songs[k].catalog_id, songs[k].id), k + 1)

WithLibraryInfo(self, response) ==
    IF Len(response.data) /= 1
    THEN LibraryErr("Condition failed: library_response.data.len() == 1")
    ELSE IF ~SingleLink(response.data[1].catalog)
    THEN LibraryErr("Condition failed: catalog.data.len() == 1")
    ELSE IF response.data[1].catalog[1] /= self.catalog_id
    THEN LibraryErr("Condition failed: catalog.data[0].id == self.catalog_id")
    ELSE LET scan == ScanSongs(self.tracks, response.data[1].tracks, <<>>, 1)
         IN  IF scan.error /= ""
             THEN LibraryErr(scan.error)
             ELSE IF MapIsEmpty(scan.map)
             THEN LibraryErr("Condition failed: !catalog_to_library.is_empty()")
             ELSE LibraryOk(Album(
                      self.catalog_id,
                      [i \in DOMAIN self.tracks |->
                          WithLibraryId(self.tracks[i],
                                        MapGet(scan.map, self.tracks[i].catalog_id))]))

\* The function returns what the steps of SpecLibrary return.
WithLibraryInfoAgrees ==
    (pc = "done") => library_ret = WithLibraryInfo(self_album, library_response)

(***************************************************************************)
(* Properties of Album::with_library_info, stated on the album, the        *)
(* library response and the result.                                        *)
(***************************************************************************)
LibraryDone == pc = "done"

Merged == LibraryDone /\ library_ret.ok

OneLibraryAlbum == Len(library_response.data) = 1

LinkedAlbums == library_response.data[1].catalog

ResponseSongs == library_response.data[1].tracks

\* The library songs that reference the catalog id.
SongsReferencing(catalog_id) ==
    {k \in DOMAIN ResponseSongs : ResponseSongs[k].catalog_id = catalog_id}

LinkValid == Len(LinkedAlbums) = 1 /\ LinkedAlbums[1] = self_album.catalog_id

ReferencesDistinct ==
    \A k, l \in DOMAIN ResponseSongs :
        k /= l => ResponseSongs[k].catalog_id /= ResponseSongs[l].catalog_id

ReferencesKnown ==
    \A k \in DOMAIN ResponseSongs :
        \E i \in DOMAIN self_album.tracks :
            self_album.tracks[i].catalog_id = ResponseSongs[k].catalog_id

\* C16: on success the result has the album's catalog id and tracks, in
\* order and with their catalog fields, and the library_id of a track is
\* the id of the library song that references its catalog id, None if no
\* song does, wherever that song is in the response.
C16_LibraryIdsAttached ==
    Merged =>
        /\ library_ret.album.catalog_id = self_album.catalog_id
        /\ Len(library_ret.album.tracks) = Len(self_album.tracks)
        /\ \A i \in DOMAIN self_album.tracks :
               LET before == self_album.tracks[i]
                   after == library_ret.album.tracks[i]
               IN  /\ after.catalog_id = before.catalog_id
                   /\ after.name = before.name
                   /\ after.artist_name = before.artist_name
                   /\ after.is_explicit = before.is_explicit
                   /\ after.isrc = before.isrc
                   /\ \A k \in SongsReferencing(before.catalog_id) :
                          after.library_id = ResponseSongs[k].id
                   /\ SongsReferencing(before.catalog_id) = {} => after.library_id = None

\* Two tracks, the library songs listed in the opposite order.
C16_Witness ==
    /\ Merged
    /\ Len(self_album.tracks) = 2
    /\ Len(ResponseSongs) = 2
    /\ ResponseSongs[1].catalog_id = self_album.tracks[2].catalog_id
    /\ ResponseSongs[2].catalog_id = self_album.tracks[1].catalog_id
    /\ ResponseSongs[1].id /= ResponseSongs[2].id
    /\ library_ret.album.tracks[1].library_id = ResponseSongs[2].id

\* C17: with_library_info fails unless the library album links exactly one
\* catalog album and that one is the album's catalog_id.
C17_LinkRequired ==
    (LibraryDone /\ OneLibraryAlbum /\ ~LinkValid) => ~library_ret.ok

\* Two linked albums, the first of them the right one, the songs being valid.
C17_Witness ==
    /\ LibraryDone
    /\ ~library_ret.ok
    /\ OneLibraryAlbum
    /\ Len(LinkedAlbums) = 2
    /\ LinkedAlbums[1] = self_album.catalog_id
    /\ ResponseSongs /= <<>> /\ ReferencesDistinct /\ ReferencesKnown

\* C18: with_library_info fails whenever two library songs reference the
\* same catalog track id, so on success each referenced catalog track has
\* one library song.
C18_DuplicateReferenceFails ==
    /\ (LibraryDone /\ OneLibraryAlbum /\ ~ReferencesDistinct) => ~library_ret.ok
    /\ Merged => \A i \in DOMAIN self_album.tracks :
                     Cardinality(SongsReferencing(self_album.tracks[i].catalog_id)) <= 1

\* Two library songs of different ids for one track of the album.
C18_Witness ==
    /\ LibraryDone
    /\ ~library_ret.ok
    /\ OneLibraryAlbum /\ LinkValid /\ ReferencesKnown
    /\ Len(ResponseSongs) = 2
    /\ ResponseSongs[1].catalog_id = ResponseSongs[2].catalog_id
    /\ ResponseSongs[1].id /= ResponseSongs[2].id

\* C19: with_library_info fails whenever a library song references a
\* catalog track id that no track of the album has.
C19_UnknownReferenceFails ==
    (LibraryDone /\ OneLibraryAlbum /\ ~ReferencesKnown) => ~library_ret.ok

\* A song for a track of the album followed by a song for an unknown track.
C19_Witness ==
    /\ LibraryDone
    /\ ~library_ret.ok
    /\ OneLibraryAlbum /\ LinkValid /\ ReferencesDistinct
    /\ Len(ResponseSongs) = 2
    /\ Len(self_album.tracks) >= 1
    /\ SongsReferencing(self_album.tracks[1].catalog_id) = {1}
    /\ \A i \in DOMAIN self_album.tracks :
           self_album.tracks[i].catalog_id /= ResponseSongs[2].catalog_id

\* C20: with_library_info fails whenever the library response lists no
\* tracks, and every album it returns has a track whose library_id is Some.
C20_EmptyLibraryFails ==
    /\ (LibraryDone /\ OneLibraryAlbum /\ Len(ResponseSongs) = 0) => ~library_ret.ok
    /\ Merged => \E i \in DOMAIN library_ret.album.tracks :
                     library_ret.album.tracks[i].library_id /= None

\* No library song for an album that has tracks and is linked correctly.
C20_Witness ==
    /\ LibraryDone
    /\ ~library_ret.ok
    /\ OneLibraryAlbum /\ LinkValid
    /\ Len(ResponseSongs) = 0
    /\ Len(self_album.tracks) > 0

(***************************************************************************)
(* The migrate command, main.rs:69-265, with the validators of             *)
(* apple_music/mod.rs and the client of apple_music/client.rs.             *)
(*                                                                         *)
(* A String that the code inspects by character (the command-line ids, the *)
(* ids of the albums) is a sequence of one-character strings.  The server  *)
(* is the environment: a request fails or succeeds, and a GET that         *)
(* succeeds returns any response of the bounded sets below.                *)
(***************************************************************************)
MaxMigrateTracks == 2
MaxMigrateLibrarySongs == 2

AsciiDigit == {"0", "1", "2", "3", "4", "5", "6", "7", "8", "9"}
AsciiLowercase == {"a", "b", "c", "d", "e", "f", "g", "h", "i", "j", "k", "l", "m",
                   "n", "o", "p", "q", "r", "s", "t", "u", "v", "w", "x", "y", "z"}
AsciiUppercase == {"A", "B", "C", "D", "E", "F", "G", "H", "I", "J", "K", "L", "M",
                   "N", "O", "P", "Q", "R", "S", "T", "U", "V", "W", "X", "Y", "Z"}
AsciiAlphanumeric == AsciiDigit \cup AsciiLowercase \cup AsciiUppercase

\* id.chars().all(|c| c.is_ascii_digit())
ValidateCatalogId(id) == \A i \in DOMAIN id : id[i] \in AsciiDigit

\* id.starts_with("l.") && id[2..].chars().all(|c| c.is_ascii_alphanumeric())
ValidateLibraryAlbumId(id) ==
    /\ Len(id) >= 2 /\ id[1] = "l" /\ id[2] = "."
    /\ \A i \in 3..Len(id) : id[i] \in AsciiAlphanumeric

\* token.split('.').collect().len() == 3
ValidateDeveloperToken(token) ==
    Cardinality({i \in DOMAIN token : token[i] = "."}) + 1 = 3

\* storefront.len() == 2 && storefront.chars().all(|c| c.is_ascii_lowercase())
ValidateStorefront(storefront) ==
    Len(storefront) = 2 /\ \A i \in DOMAIN storefront : storefront[i] \in AsciiLowercase

\* HeaderValue::try_from(String): a header value holds no line break.
HeaderValueOk(value) == \A i \in DOMAIN value : value[i] \notin {"\n", "\r"}

\* Client::new, client.rs:12-38: the two `?` on the header values.
ClientNewOk(developer_token, origin_header) ==
    /\ HeaderValueOk(<<"B", "e", "a", "r", "e", "r", " ">> \o developer_token)
    /\ origin_header /= NoneOpt => HeaderValueOk(origin_header[1])

\* The values of the command-line arguments.
DeveloperTokens == {<<"a", ".", "b", ".", "c">>, <<"a", ".", "b">>}
OriginHeaders == {NoneOpt, Some(<<"o", "\n">>)}
Storefronts == {<<"u", "s">>, <<"U", "S">>, <<"u", "s", "a">>}
SourceAlbumLibraryIds == {<<"l", ".", "a", "1">>, <<"a", "1">>}
DestinationAlbumCatalogIds == {<<"2">>, <<"1">>, <<"l", ".", "2">>}

Migrate(developer_token, origin_header, storefront, dry_run, source_album_library_id, destination_album_catalog_id) ==
    [developer_token |-> developer_token,
     origin_header |-> origin_header,
     storefront |-> storefront,
     dry_run |-> dry_run,
     source_album_library_id |-> source_album_library_id,
     destination_album_catalog_id |-> destination_album_catalog_id]

\* The catalog of the server: album 1 is the explicit edition, the other
\* albums are the clean edition.
SourceEditionId == <<"1">>
WrongAlbumId == <<"9">>
OtherLibraryAlbumId == <<"l", ".", "b", "2">>

EditionSong(id, name, isrc, content_rating, track_number) ==
    [id |-> id,
     attributes |-> [artist_name |-> "Artist",
                     content_rating |-> content_rating,
                     disc_number |-> 1,
                     isrc |-> isrc,
                     name |-> name,
                     track_number |-> track_number]]

EditionSongs(album_id) ==
    IF album_id = SourceEditionId
    THEN {EditionSong(c[1], c[2], c[3], "explicit", n) :
             c \in {<<"s1", "Song 1", "ISRC1">>, <<"s2", "Song 2", "ISRC2">>},
             n \in 1..MaxMigrateTracks}
    \* d1 has the ISRC of s1; d2 and d3 have the name and artist of s2
    ELSE {EditionSong(c[1], c[2], c[3], None, n) :
             c \in {<<"d1", "Song 1", "ISRC1">>, <<"d2", "Song 2", "ISRC9">>,
                    <<"d3", "Song 2", "ISRC8">>},
             n \in 1..MaxMigrateTracks}

\* The songs of the library album: references to s1, to s2, a second
\* reference to s1 and a reference to a track that is not on the album.
MigrateLibrarySongs ==
    {LibrarySong("i.1", "s1"), LibrarySong("i.2", "s2"),
     LibrarySong("i.3", "s1"), LibrarySong("i.4", "s9")}

\* Root::library_id and Root::catalog_id, library_album.rs:54-67.
ValueOk(value) == [ok |-> TRUE, value |-> value, error |-> ""]
ValueErr(message) == [ok |-> FALSE, value |-> Unused, error |-> message]

LibraryIdOf(root) ==
    IF Len(root.data) /= 1
    THEN ValueErr("Condition failed: self.data.len() == 1")
    ELSE ValueOk(root.data[1].id)

CatalogIdOf(root) ==
    IF Len(root.data) /= 1
    THEN ValueErr("Condition failed: self.data.len() == 1")
    ELSE IF Len(root.data[1].catalog) /= 1
    THEN ValueErr("Condition failed: album.relationships.catalog.data.len() == 1")
    ELSE ValueOk(root.data[1].catalog[1])

\* Result<()> of main.
ExitOk == [ok |-> TRUE, error |-> ""]
ExitErr(message) == [ok |-> FALSE, error |-> message]
Running == [ok |-> FALSE, error |-> "running"]

\* One request of the client: the method of Client called, its argument and
\* whether it returned Ok.
Request(call, argument, ok) == [call |-> call, argument |-> argument, ok |-> ok]

RequestFailed == "request failed"

\* What get_library_album can return for the album asked for: no album, or
\* one album under that id or another, linked to no catalog album, to album
\* 1 or to two albums.
LibraryRoots(library_id) ==
    {[data |-> <<>>]}
    \cup {[data |-> <<LibraryAlbum(id, catalog, songs)>>] :
             id \in {library_id, OtherLibraryAlbumId},
             catalog \in {<<>>, <<SourceEditionId>>, <<SourceEditionId, WrongAlbumId>>},
             songs \in SeqsUpTo(MigrateLibrarySongs, MaxMigrateLibrarySongs)}

\* What get_catalog_album can return for the album asked for: no album, or
\* one album under that id or another, with any of the edition's songs.
CatalogRoots(catalog_id) ==
    {[data |-> <<>>]}
    \cup {[data |-> <<CatalogAlbum(id, Len(songs), songs)>>] :
             id \in {catalog_id, WrongAlbumId},
             songs \in SeqsUpTo(EditionSongs(catalog_id), MaxMigrateTracks)}

\* The user's library before the run: the album to migrate and no song of
\* the destination album.
InitialLibrary == [albums |-> {<<"l", ".", "a", "1">>}, songs |-> {}]

InitMigrate ==
    /\ \E developer_token \in DeveloperTokens, origin_header \in OriginHeaders,
          storefront \in Storefronts, dry_run \in BOOLEAN,
          source_album_library_id \in SourceAlbumLibraryIds,
          destination_album_catalog_id \in DestinationAlbumCatalogIds :
           cli = Migrate(developer_token, origin_header, storefront, dry_run,
                         source_album_library_id, destination_album_catalog_id)
    /\ pc = "validate"
    /\ library_album = Unused
    /\ source_album = Unused
    /\ destination_album = Unused
    /\ matches = Unused
    /\ report = Unused
    /\ songs_to_add = Unused
    /\ requests = <<>>
    /\ personal_library = InitialLibrary
    /\ exit_result = Running
    /\ MatchUnused
    /\ AlbumUnused
    /\ LibraryUnused

\* `return Err(..)`, `?`, and the final Ok(()).
Exit(r) ==
    /\ pc' = "done"
    /\ exit_result' = r

\* The four ensure! on the arguments, main.rs:79-94.
ValidateArguments ==
    /\ pc = "validate"
    /\ IF ~ValidateDeveloperToken(cli.developer_token)
       THEN Exit(ExitErr("invalid developer token"))
       ELSE IF ~ValidateStorefront(cli.storefront)
       THEN Exit(ExitErr("invalid storefront"))
       ELSE IF ~ValidateLibraryAlbumId(cli.source_album_library_id)
       THEN Exit(ExitErr("invalid source album library ID"))
       ELSE IF ~ValidateCatalogId(cli.destination_album_catalog_id)
       THEN Exit(ExitErr("invalid destination album catalog ID"))
       ELSE pc' = "new_client" /\ UNCHANGED exit_result
    /\ UNCHANGED <<cli, library_album, source_album, destination_album, matches,
                   report, songs_to_add, requests, personal_library>>
    /\ UNCHANGED <<matchVars, albumVars, libraryVars>>

\* Client::new(..)?, main.rs:96-97.
NewClient ==
    /\ pc = "new_client"
    /\ IF ClientNewOk(cli.developer_token, cli.origin_header)
       THEN pc' = "get_library_album" /\ UNCHANGED exit_result
       ELSE Exit(ExitErr("failed to parse header value"))
    /\ UNCHANGED <<cli, library_album, source_album, destination_album, matches,
                   report, songs_to_add, requests, personal_library>>
    /\ UNCHANGED <<matchVars, albumVars, libraryVars>>

\* get_library_album(..).await? and the ensure! on its id, main.rs:99-100.
GetLibraryAlbum ==
    /\ pc = "get_library_album"
    /\ \/ /\ requests' = Append(requests, Request("get_library_album",
                                                  cli.source_album_library_id, FALSE))
          /\ Exit(ExitErr(RequestFailed))
          /\ UNCHANGED library_album
       \/ \E root \in LibraryRoots(cli.source_album_library_id) :
              /\ requests' = Append(requests, Request("get_library_album",
                                                      cli.source_album_library_id, TRUE))
              /\ library_album' = root
              /\ IF ~LibraryIdOf(root).ok
                 THEN Exit(ExitErr(LibraryIdOf(root).error))
                 ELSE IF LibraryIdOf(root).value /= cli.source_album_library_id
                 THEN Exit(ExitErr("Condition failed: library_album.library_id()? == source_album_library_id"))
                 ELSE pc' = "get_source_catalog" /\ UNCHANGED exit_result
    /\ UNCHANGED <<cli, source_album, destination_album, matches, report,
                   songs_to_add, personal_library>>
    /\ UNCHANGED <<matchVars, albumVars, libraryVars>>

\* The rest of the block that builds source_album, main.rs:101-107.
GetSourceCatalogAlbum ==
    /\ pc = "get_source_catalog"
    /\ LET catalog_id == CatalogIdOf(library_album)
       IN  IF ~catalog_id.ok
           THEN /\ Exit(ExitErr(catalog_id.error))
                /\ UNCHANGED <<requests, source_album>>
           ELSE \/ /\ requests' = Append(requests, Request("get_catalog_album",
                                                           catalog_id.value, FALSE))
                   /\ Exit(ExitErr(RequestFailed))
                   /\ UNCHANGED source_album
                \/ \E root \in CatalogRoots(catalog_id.value) :
                       /\ requests' = Append(requests, Request("get_catalog_album",
                                                               catalog_id.value, TRUE))
                       /\ LET album == TryFrom(root)
                              merged == WithLibraryInfo(album.album, library_album)
                          IN  IF ~album.ok
                              THEN Exit(ExitErr(album.error)) /\ UNCHANGED source_album
                              ELSE IF ~merged.ok
                              THEN Exit(ExitErr(merged.error)) /\ UNCHANGED source_album
                              ELSE /\ source_album' = merged.album
                                   /\ pc' = "get_destination_catalog"
                                   /\ UNCHANGED exit_result
    /\ UNCHANGED <<cli, library_album, destination_album, matches, report,
                   songs_to_add, personal_library>>
    /\ UNCHANGED <<matchVars, albumVars, libraryVars>>

\* destination_album and the two ensure! on its id, main.rs:108-116.
GetDestinationCatalogAlbum ==
    /\ pc = "get_destination_catalog"
    /\ \/ /\ requests' = Append(requests, Request("get_catalog_album",
                                                  cli.destination_album_catalog_id, FALSE))
          /\ Exit(ExitErr(RequestFailed))
          /\ UNCHANGED destination_album
       \/ \E root \in CatalogRoots(cli.destination_album_catalog_id) :
              /\ requests' = Append(requests, Request("get_catalog_album",
                                                      cli.destination_album_catalog_id, TRUE))
              /\ LET album == TryFrom(root)
                 IN  IF ~album.ok
                     THEN Exit(ExitErr(album.error)) /\ UNCHANGED destination_album
                     ELSE /\ destination_album' = album.album
                          /\ IF album.album.catalog_id /= cli.destination_album_catalog_id
                             THEN Exit(ExitErr("Condition failed: destination_album.catalog_id == destination_album_catalog_id"))
                             ELSE IF source_album.catalog_id = album.album.catalog_id
                             THEN Exit(ExitErr("source and destination albums are the same"))
                             ELSE pc' = "match" /\ UNCHANGED exit_result
    /\ UNCHANGED <<cli, library_album, source_album, matches, report,
                   songs_to_add, personal_library>>
    /\ UNCHANGED <<matchVars, albumVars, libraryVars>>

\* matching::match_tracks(&source_album, &destination_album)?, main.rs:118.
MatchAlbums ==
    /\ pc = "match"
    /\ LET matched == MatchTracks(source_album, destination_album)
       IN  IF ~matched.ok
           THEN Exit(ExitErr(matched.error)) /\ UNCHANGED matches
           ELSE matches' = matched.verdicts /\ pc' = "matched" /\ UNCHANGED exit_result
    /\ UNCHANGED <<cli, library_album, source_album, destination_album, report,
                   songs_to_add, requests, personal_library>>
    /\ UNCHANGED <<matchVars, albumVars, libraryVars>>

\* Variant: the flag is not consulted.
NeverDryRun(args) == FALSE
\* if dry_run, main.rs:120
DryRun(args) == args.dry_run

\* library_id.is_some()
InLibrary(track) == track.library_id /= None

\* tracks.iter().position(|t| t.catalog_id == catalog_id).unwrap() + 1
TrackNumberOf(tracks, catalog_id) ==
    CHOOSE i \in DOMAIN tracks :
        /\ tracks[i].catalog_id = catalog_id
        /\ \A j \in 1..(i - 1) : tracks[j].catalog_id /= catalog_id

\* The lists `matched` and `unmatched` the dry run prints, main.rs:137-176:
\* the track numbers of the verdicts whose source track is in the library.
DryRunLists(verdicts, s, d) ==
    LET in_library == SelectSeq(verdicts, LAMBDA v : InLibrary(s.tracks[v.source]))
        matched == SelectSeq(in_library, LAMBDA v : v.kind = "Match")
        unmatched == SelectSeq(in_library, LAMBDA v : v.kind = "NoMatch")
    IN  [matched |->
            [k \in DOMAIN matched |->
                <<TrackNumberOf(s.tracks, s.tracks[matched[k].source].catalog_id),
                  TrackNumberOf(d.tracks, d.tracks[matched[k].destination].catalog_id)>>],
         unmatched |->
            [k \in DOMAIN unmatched |->
                TrackNumberOf(s.tracks, s.tracks[unmatched[k].source].catalog_id)]]

\* Variant: the library status of the source track is not consulted.
SongsOfAllMatches(verdicts, s, d) ==
    LET chosen == SelectSeq(verdicts, LAMBDA v : v.kind = "Match")
    IN  [k \in DOMAIN chosen |-> d.tracks[chosen[k].destination].catalog_id]
\* The filter_map of main.rs:226-235.
SongsToAdd(verdicts, s, d) ==
    LET chosen == SelectSeq(verdicts,
                            LAMBDA v : v.kind = "Match" /\ InLibrary(s.tracks[v.source]))
    IN  [k \in DOMAIN chosen |-> d.tracks[chosen[k].destination].catalog_id]

\* Variant: the check is missing.
AlwaysSomethingToAdd(songs) == FALSE
\* songs_to_add.is_empty(), main.rs:237
NothingToAdd(songs) == Len(songs) = 0

\* Variant: the result of the removal is dropped.
RemovalIgnored(removed) == FALSE
\* The `?` on remove_album_from_library(..).await, main.rs:251.
RemovalFailed(removed) == ~removed

\* The dry run, main.rs:120-224.
DryRunReport ==
    /\ pc = "matched"
    /\ DryRun(cli)
    /\ report' = DryRunLists(matches, source_album, destination_album)
    /\ Exit(ExitOk)
    /\ UNCHANGED <<cli, library_album, source_album, destination_album, matches,
                   songs_to_add, requests, personal_library>>
    /\ UNCHANGED <<matchVars, albumVars, libraryVars>>

\* songs_to_add and the ensure! on it, main.rs:226-247.
SelectSongs ==
    /\ pc = "matched"
    /\ ~DryRun(cli)
    /\ songs_to_add' = SongsToAdd(matches, source_album, destination_album)
    /\ IF NothingToAdd(songs_to_add')
       THEN Exit(ExitErr("no tracks to migrate"))
       ELSE pc' = "remove" /\ UNCHANGED exit_result
    /\ UNCHANGED <<cli, library_album, source_album, destination_album, matches,
                   report, requests, personal_library>>
    /\ UNCHANGED <<matchVars, albumVars, libraryVars>>

\* remove_album_from_library(&source_album_library_id).await?, main.rs:249-251
\* and client.rs:87-97: the album leaves the library when the request succeeds.
RemoveAlbum ==
    /\ pc = "remove"
    /\ \E removed \in BOOLEAN :
           /\ requests' = Append(requests, Request("remove_album_from_library",
                                                   cli.source_album_library_id, removed))
           /\ personal_library' =
                  IF removed
                  THEN [personal_library EXCEPT
                           !.albums = @ \ {cli.source_album_library_id}]
                  ELSE personal_library
           /\ IF RemovalFailed(removed)
              THEN Exit(ExitErr(RequestFailed))
              ELSE pc' = "add" /\ UNCHANGED exit_result
    /\ UNCHANGED <<cli, library_album, source_album, destination_album, matches,
                   report, songs_to_add>>
    /\ UNCHANGED <<matchVars, albumVars, libraryVars>>

\* add_songs_to_library(&songs_to_add).await? and the return, main.rs:253-270
\* and client.rs:74-85: the songs enter the library when the request succeeds.
AddSongs ==
    /\ pc = "add"
    /\ \E added \in BOOLEAN :
           /\ requests' = Append(requests, Request("add_songs_to_library",
                                                   songs_to_add, added))
           /\ personal_library' =
                  IF added
                  THEN [personal_library EXCEPT
                           !.songs = @ \cup {songs_to_add[k] : k \in DOMAIN songs_to_add}]
                  ELSE personal_library
           /\ Exit(IF added THEN ExitOk ELSE ExitErr(RequestFailed))
    /\ UNCHANGED <<cli, library_album, source_album, destination_album, matches,
                   report, songs_to_add>>
    /\ UNCHANGED <<matchVars, albumVars, libraryVars>>

NextMigrate ==
    \/ ValidateArguments
    \/ NewClient
    \/ GetLibraryAlbum
    \/ GetSourceCatalogAlbum
    \/ GetDestinationCatalogAlbum
    \/ MatchAlbums
    \/ DryRunReport
    \/ SelectSongs
    \/ RemoveAlbum
    \/ AddSongs

SpecMigrate == InitMigrate /\ [][NextMigrate]_vars

(***************************************************************************)
(* Properties of the migrate command, stated on the arguments, the         *)
(* requests sent and the library.                                          *)
(***************************************************************************)
MigrateDone == pc = "done"

IsMutating(request) ==
    request.call \in {"remove_album_from_library", "add_songs_to_library"}

\* The requests that change the library, in the order they were sent.
MutatingRequests == SelectSeq(requests, IsMutating)

\* The Match verdicts whose source track has a library id.
LibraryMatches ==
    {i \in DOMAIN matches :
        /\ matches[i].kind = "Match"
        /\ source_album.tracks[matches[i].source].library_id /= None}

\* C21: a run with --dry-run sends no remove_album_from_library and no
\* add_songs_to_library request and leaves the library as it was, at every
\* point of every run.
C21_DryRunChangesNothing ==
    cli.dry_run => (MutatingRequests = <<>> /\ personal_library = InitialLibrary)

\* A dry run that reported a matched and an unmatched library track.
C21_Witness ==
    /\ MigrateDone
    /\ cli.dry_run
    /\ exit_result.ok
    /\ Len(report.matched) >= 1
    /\ Len(report.unmatched) >= 1
    /\ Len(requests) = 3

\* C26: when a remove_album_from_library or add_songs_to_library request
\* has been sent, the arguments were valid, the three GET requests came
\* first and succeeded, the library album is the one asked for, the source
\* album is the album it links to with library ids attached, the
\* destination album is the one asked for and is not the source album,
\* match_tracks succeeded, and at least one song is to be added.
C26_MutationOnlyAfterChecks ==
    MutatingRequests /= <<>> =>
        /\ ValidateDeveloperToken(cli.developer_token)
        /\ ValidateStorefront(cli.storefront)
        /\ ValidateLibraryAlbumId(cli.source_album_library_id)
        /\ ValidateCatalogId(cli.destination_album_catalog_id)
        /\ Len(requests) >= 4
        /\ \A k \in 1..3 : ~IsMutating(requests[k]) /\ requests[k].ok
        /\ \A k \in 4..Len(requests) : IsMutating(requests[k])
        /\ requests[1] = Request("get_library_album", cli.source_album_library_id, TRUE)
        /\ Len(library_album.data) = 1
        /\ library_album.data[1].id = cli.source_album_library_id
        /\ library_album.data[1].catalog = <<source_album.catalog_id>>
        /\ requests[2] = Request("get_catalog_album", source_album.catalog_id, TRUE)
        /\ \E i \in DOMAIN source_album.tracks : source_album.tracks[i].library_id /= None
        /\ requests[3] = Request("get_catalog_album", cli.destination_album_catalog_id, TRUE)
        /\ destination_album.catalog_id = cli.destination_album_catalog_id
        /\ source_album.catalog_id /= destination_album.catalog_id
        /\ MatchTracks(source_album, destination_album) = Ok(matches)
        /\ LibraryMatches /= {}
        /\ songs_to_add /= <<>>

\* A run that removed the album and added songs.
C26_Witness ==
    /\ MigrateDone
    /\ exit_result.ok
    /\ Len(requests) = 5
    /\ requests[4].call = "remove_album_from_library" /\ requests[4].ok
    /\ requests[5].call = "add_songs_to_library" /\ requests[5].ok

\* C27: the songs of every add_songs_to_library request, and the songs that
\* entered the library, are exactly the catalog ids of the destination
\* tracks of the Match verdicts whose source track has a library id.
C27_AddedSongsAreLibraryMatches ==
    LET expected == {destination_album.tracks[matches[i].destination].catalog_id :
                        i \in LibraryMatches}
    IN  /\ \A k \in DOMAIN requests :
               requests[k].call = "add_songs_to_library"
               => {requests[k].argument[j] : j \in DOMAIN requests[k].argument} = expected
        /\ personal_library.songs /= {} => personal_library.songs = expected

\* Songs were added while one Match verdict is for a source track without a
\* library id.
C27_Witness ==
    /\ MigrateDone
    /\ exit_result.ok
    /\ personal_library.songs /= {}
    /\ \E i \in DOMAIN matches :
           /\ matches[i].kind = "Match"
           /\ source_album.tracks[matches[i].source].library_id = None
    /\ Len(source_album.tracks) = 2

\* C28: the requests that change the library are at most one removal
\* followed by at most one addition, and the addition is sent only after a
\* removal that returned success.
C28_RemoveThenAdd ==
    /\ Len(MutatingRequests) <= 2
    /\ Len(MutatingRequests) >= 1
       => MutatingRequests[1].call = "remove_album_from_library"
    /\ Len(MutatingRequests) = 2
       => /\ MutatingRequests[1].ok
          /\ MutatingRequests[2].call = "add_songs_to_library"

\* The removal failed and the run ended without an addition.
C28_Witness ==
    /\ MigrateDone
    /\ ~exit_result.ok
    /\ Len(MutatingRequests) = 1
    /\ ~MutatingRequests[1].ok

\* C29: whenever the run has ended with an error, the library is as it was
\* before the run.
C29_ErrorLeavesLibraryUntouched ==
    (MigrateDone /\ ~exit_result.ok) => personal_library = InitialLibrary

\* C30: whenever a remove_album_from_library request has been sent, every
\* source track that has a library id has a Match verdict.
C30_NoLibraryTrackLost ==
    (\E k \in DOMAIN requests : requests[k].call = "remove_album_from_library")
    => \A i \in DOMAIN source_album.tracks :
           source_album.tracks[i].library_id /= None
           => \E v \in DOMAIN matches :
                  matches[v].kind = "Match" /\ matches[v].source = i

====
